---- MODULE Spec2Model ----
(***************************************************************************)
(* Model of .github/scripts/xccov_to_lcov.py: convert_xccov_to_lcov reads  *)
(* an xccov JSON report and writes one LCOV record per file.  The file     *)
(* system (input source, output destinations), the local variables of the  *)
(* call and the position of the call in its body are the state; every      *)
(* statement that reads a key or writes a line is a step.                  *)
(***************************************************************************)
EXTENDS Integers, Sequences, FiniteSets, TLC

(* ------------------------------ bounds --------------------------------- *)

\* targets, files and functions of a report, counted together
MaxEntries == 4
\* keys absent from a report
MaxMissing == 1

(* ------------------------- python dictionaries ------------------------- *)

\* A dict is a function from the keys it holds.  d.get(k, default)
Get(d, k, default) == IF k \in DOMAIN d THEN d[k] ELSE default

\* d[k] raises KeyError(k) when the key is absent
Has(d, k) == k \in DOMAIN d

\* the dict d without key k
Without(d, k) == [q \in DOMAIN d \ {k} |-> d[q]]

(* ----------------------------- input reports --------------------------- *)

\* Function Coverage entries a report is built from
FunctionPool ==
    { [name |-> "f()", lineNumber |-> 3, executionCount |-> 2],
      [name |-> "g()", lineNumber |-> 8, executionCount |-> 0] }

\* File Coverage entries without their function list; the second one has
\* coveredLines > executableLines
HeaderPool ==
    { [path |-> "A.swift", executableLines |-> 10, coveredLines |-> 7],
      [path |-> "B.swift", executableLines |-> 1, coveredLines |-> 2] }

\* File Coverage entries with exactly k functions
FileWith(k) ==
    { [path |-> h.path, executableLines |-> h.executableLines,
       coveredLines |-> h.coveredLines, functions |-> fl] :
         h \in HeaderPool, fl \in [1..k -> FunctionPool] }

\* sequences of n files holding m functions altogether
RECURSIVE FileSeqs(_, _)
FileSeqs(n, m) ==
    IF n = 0
    THEN IF m = 0 THEN { <<>> } ELSE {}
    ELSE UNION { { <<fd>> \o rest : fd \in FileWith(k), rest \in FileSeqs(n - 1, m - k) } :
                 k \in 0..m }

\* sequences of t targets holding n files and m functions altogether
RECURSIVE TargetSeqs(_, _, _)
TargetSeqs(t, n, m) ==
    IF t = 0
    THEN IF n = 0 /\ m = 0 THEN { <<>> } ELSE {}
    ELSE UNION { { <<[files |-> fl]>> \o rest :
                     fl \in FileSeqs(a, k), rest \in TargetSeqs(t - 1, n - a, m - k) } :
                 a \in 0..n, k \in 0..m }

\* reports in which every key is present
FullReports ==
    UNION { { [targets |-> ts] : ts \in IF t + n + m <= MaxEntries
                                         THEN TargetSeqs(t, n, m) ELSE {} } :
            t \in 0..MaxEntries, n \in 0..MaxEntries, m \in 0..MaxEntries }

\* the reports obtained from r by taking one key out of one dict
DropOne(r) ==
    LET ts == Get(r, "targets", <<>>)
        fl(t) == Get(ts[t], "files", <<>>)
        fn(t, i) == Get(fl(t)[i], "functions", <<>>)
    IN  (IF Has(r, "targets") THEN { Without(r, "targets") } ELSE {})
        \cup { [r EXCEPT !.targets[t] = Without(@, "files")] :
                 t \in { u \in DOMAIN ts : Has(ts[u], "files") } }
        \cup UNION { UNION { { [r EXCEPT !.targets[t].files[i] = Without(@, k)] :
                                 k \in DOMAIN fl(t)[i] } :
                             i \in DOMAIN fl(t) } :
                     t \in DOMAIN ts }
        \cup UNION { UNION { UNION { { [r EXCEPT !.targets[t].files[i].functions[j] =
                                                    Without(@, k)] :
                                         k \in DOMAIN fn(t, i)[j] } :
                                     j \in DOMAIN fn(t, i) } :
                             i \in DOMAIN fl(t) } :
                     t \in DOMAIN ts }

\* the reports obtained from r by taking at most n keys out
RECURSIVE Damaged(_, _)
Damaged(r, n) ==
    IF n = 0 THEN { r }
    ELSE { r } \cup UNION { Damaged(d, n - 1) : d \in DropOne(r) }

(* ------------------------------- state --------------------------------- *)

\* what the destination holds before a call that has not written it: nothing,
\* or the output of an older conversion
NoFile == [exists |-> FALSE, lines |-> <<>>]
StaleFile ==
    [exists |-> TRUE,
     lines |-> <<"TN:\n", "SF:Old.swift\n", "FNF:0\n", "FNH:0\n", "LF:4\n", "LH:4\n",
                 "end_of_record\n">>]

\* the exception in flight; NoExc when there is none
NoExc == [type |-> "None", arg |-> ""]
Raise(type, arg) == [type |-> type, arg |-> arg]

\* value of `data` before json.load has returned
None == [None |-> TRUE]

VARIABLES
    jsonFile,   \* the input source: [kind, data], kind "json" | "garbage" | "missing"
    lcov,       \* the file at lcov_path: [exists, lines]
    pc,         \* position in convert_xccov_to_lcov
    data,       \* json.load(f)
    out,        \* the output stream: "none" | "open" | "closed"
    t,          \* index of `target` in data.get('targets', [])
    i,          \* index of `file_data` in target.get('files', [])
    j,          \* index of `func` in file_data.get('functions', [])
    exc,        \* the exception the call ends with
    firstOut    \* history: what the first call that returned left at its
                \* lcov_path, and whether a later call has returned too

vars == <<jsonFile, lcov, pc, data, out, t, i, j, exc, firstOut>>

(* ------------------- the loop variables of the call -------------------- *)

\* data.get('targets', [])
targets == Get(data, "targets", <<>>)

\* mutant of files: only the first target is read
filesOfFirstTarget == Get(targets[1], "files", <<>>)

\* target.get('files', [])
files == Get(targets[t], "files", <<>>)

file_data == files[i]

\* file_data.get('functions', [])
functions == Get(file_data, "functions", <<>>)

func == functions[j]

(* --------------------------- formatting -------------------------------- *)

\* f"{v}" of an int
Str(v) == ToString(v)

TNLine == "TN:\n"
SFLine(path) == "SF:" \o path \o "\n"
FNLine(line, name) == "FN:" \o Str(line) \o "," \o name \o "\n"

\* mutant of FNDALine: the name before the count
FNDALineSwapped(count, name) == "FNDA:" \o name \o "," \o Str(count) \o "\n"

FNDALine(count, name) == "FNDA:" \o Str(count) \o "," \o name \o "\n"
FNFLine(total_functions) == "FNF:" \o Str(total_functions) \o "\n"
FNHLine(covered_functions) == "FNH:" \o Str(covered_functions) \o "\n"

\* mutant of DALine: the count before the line
DALineSwapped(line, count) == "DA:" \o Str(count) \o "," \o Str(line) \o "\n"

DALine(line, count) == "DA:" \o Str(line) \o "," \o Str(count) \o "\n"
LFLine(n) == "LF:" \o Str(n) \o "\n"

\* mutant of LHLine: covered lines capped at the executable lines
LHLineClamped(n) ==
    "LH:" \o Str(IF n > file_data["executableLines"]
                 THEN file_data["executableLines"] ELSE n) \o "\n"

LHLine(n) == "LH:" \o Str(n) \o "\n"
EndLine == "end_of_record\n"

(* ------------------------ convert_xccov_to_lcov ------------------------ *)

\* mutant of CountHit: an execution count of 0 counts as a hit
RECURSIVE CountHitNonNegative(_)
CountHitNonNegative(fl) ==
    IF fl = <<>> THEN 0
    ELSE (IF Head(fl)["executionCount"] >= 0 THEN 1 ELSE 0) + CountHitNonNegative(Tail(fl))

\* sum(1 for f in functions if f['executionCount'] > 0)
RECURSIVE CountHit(_)
CountHit(fl) ==
    IF fl = <<>> THEN 0
    ELSE (IF Head(fl)["executionCount"] > 0 THEN 1 ELSE 0) + CountHit(Tail(fl))

\* mutant of OpenW: mode 'a', what the destination held is kept
OpenAppend(f) == [exists |-> TRUE, lines |-> f.lines]

\* open(lcov_path, 'w'): the destination exists and is empty
OpenW(f) == [exists |-> TRUE, lines |-> <<>>]

\* out.write(s) for each s of ls, all of them succeeding
Written(ls) == lcov' = [lcov EXCEPT !.lines = @ \o ls]

\* mutant of ExitStream: out.close() as the last statement of the body
ExitStreamOnReturn(e) == IF e.type = "None" THEN "closed" ELSE "open"

\* the with statement leaves the stream closed, whatever ended its body
ExitStream(e) == "closed"

\* the writes of ls all succeed and the call goes on at `next`
WriteOk(ls, next) ==
    /\ Written(ls)
    /\ pc' = next
    /\ exc' = exc

\* one write of ls raises OSError after the ones before it went through
WriteFails(ls) ==
    \E k \in 0..(Len(ls) - 1) :
        /\ Written(SubSeq(ls, 1, k))
        /\ exc' = Raise("OSError", "write")
        /\ pc' = "exit"

\* mutant of KeyError: the error is swallowed and the call returns
KeyErrorSwallowed(k, ls) ==
    /\ Written(ls)
    /\ exc' = exc
    /\ pc' = "exit"

\* mutant of KeyError: the output written so far is discarded
KeyErrorRetract(k, ls) ==
    /\ lcov' = [lcov EXCEPT !.lines = <<>>]
    /\ exc' = Raise("KeyError", k)
    /\ pc' = "exit"

\* d[k] raises KeyError(k) after the writes of ls went through
KeyError(k, ls) ==
    /\ Written(ls)
    /\ exc' = Raise("KeyError", k)
    /\ pc' = "exit"

Init ==
    /\ \/ \E r \in FullReports : \E d \in Damaged(r, MaxMissing) :
              jsonFile = [kind |-> "json", data |-> d]
       \/ jsonFile \in { [kind |-> "garbage", data |-> None],
                         [kind |-> "missing", data |-> None] }
    /\ lcov \in {NoFile, StaleFile}
    /\ pc = "read"
    /\ data = None
    /\ out = "none"
    /\ t = 1 /\ i = 1 /\ j = 1
    /\ exc = NoExc
    /\ firstOut = [taken |-> FALSE, again |-> FALSE, lines |-> <<>>]

\* mutant of ReadInput: the destination is opened before the input is read
ReadInputAfterOpen ==
    /\ pc = "read"
    /\ lcov' = OpenW(lcov)
    /\ \/ /\ jsonFile.kind = "missing"
          /\ exc' = Raise("FileNotFoundError", "json_path")
          /\ pc' = "done"
          /\ data' = data
       \/ /\ jsonFile.kind = "garbage"
          /\ exc' = Raise("JSONDecodeError", "json_path")
          /\ pc' = "done"
          /\ data' = data
       \/ /\ jsonFile.kind = "json"
          /\ data' = jsonFile.data
          /\ pc' = "open"
          /\ exc' = exc
    /\ UNCHANGED <<jsonFile, out, t, i, j, firstOut>>

\* lines 14-15: with open(json_path) as f: data = json.load(f)
ReadInput ==
    /\ pc = "read"
    /\ \/ /\ jsonFile.kind = "missing"
          /\ exc' = Raise("FileNotFoundError", "json_path")
          /\ pc' = "done"
          /\ data' = data
       \/ /\ jsonFile.kind = "garbage"
          /\ exc' = Raise("JSONDecodeError", "json_path")
          /\ pc' = "done"
          /\ data' = data
       \/ /\ jsonFile.kind = "json"
          /\ data' = jsonFile.data
          /\ pc' = "open"
          /\ exc' = exc
    /\ UNCHANGED <<jsonFile, lcov, out, t, i, j, firstOut>>

\* line 17: with open(lcov_path, 'w') as out
OpenOutput ==
    /\ pc = "open"
    /\ \/ /\ lcov' = OpenW(lcov)
          /\ out' = "open"
          /\ pc' = "files"
          /\ exc' = exc
       \/ /\ exc' = Raise("PermissionError", "lcov_path")
          /\ pc' = "done"
          /\ UNCHANGED <<lcov, out>>
    /\ t' = 1 /\ i' = 1 /\ j' = 1
    /\ UNCHANGED <<jsonFile, data, firstOut>>

\* lines 18-19: the inner loop is over, the outer one takes the next target
NextTarget ==
    /\ pc = "files"
    /\ t <= Len(targets)
    /\ i > Len(files)
    /\ t' = t + 1
    /\ i' = 1
    /\ UNCHANGED <<jsonFile, lcov, pc, data, out, j, exc, firstOut>>

\* lines 20-22: path = file_data['path']; TN and SF
FileHeader ==
    /\ pc = "files"
    /\ t <= Len(targets)
    /\ i <= Len(files)
    /\ IF ~Has(file_data, "path")
       THEN KeyError("path", <<>>)
       ELSE \/ WriteOk(<<TNLine, SFLine(file_data["path"])>>, "functions")
            \/ WriteFails(<<TNLine, SFLine(file_data["path"])>>)
    /\ j' = 1
    /\ UNCHANGED <<jsonFile, data, out, t, i, firstOut>>

\* lines 25-30: one iteration of the first loop over the functions
FunctionEntry ==
    /\ pc = "functions"
    /\ j <= Len(functions)
    /\ IF ~Has(func, "name") THEN KeyError("name", <<>>) /\ j' = j
       ELSE IF ~Has(func, "lineNumber") THEN KeyError("lineNumber", <<>>) /\ j' = j
       ELSE IF ~Has(func, "executionCount") THEN KeyError("executionCount", <<>>) /\ j' = j
       ELSE LET name == func["name"]
                line == func["lineNumber"]
                count == func["executionCount"]
                ls == <<FNLine(line, name), FNDALine(count, name)>>
            IN  \/ WriteOk(ls, "functions") /\ j' = j + 1
                \/ WriteFails(ls) /\ j' = j
    /\ UNCHANGED <<jsonFile, data, out, t, i, firstOut>>

\* lines 33-36: FNF and FNH
FunctionSummary ==
    /\ pc = "functions"
    /\ j > Len(functions)
    /\ LET total_functions == Len(functions)
           covered_functions == CountHit(functions)
           ls == <<FNFLine(total_functions), FNHLine(covered_functions)>>
       IN  \/ WriteOk(ls, "lines")
           \/ WriteFails(ls)
    /\ j' = 1
    /\ UNCHANGED <<jsonFile, data, out, t, i, firstOut>>

\* lines 39-42: one iteration of the second loop over the functions
LineEntry ==
    /\ pc = "lines"
    /\ j <= Len(functions)
    /\ LET line == func["lineNumber"]
           count == func["executionCount"]
           ls == <<DALine(line, count)>>
       IN  \/ WriteOk(ls, "lines") /\ j' = j + 1
           \/ WriteFails(ls) /\ j' = j
    /\ UNCHANGED <<jsonFile, data, out, t, i, firstOut>>

\* lines 45-46: LF and LH, each key read when its line is formatted
LineSummary ==
    /\ pc = "lines"
    /\ j > Len(functions)
    /\ IF ~Has(file_data, "executableLines")
       THEN KeyError("executableLines", <<>>)
       ELSE LET lf == LFLine(file_data["executableLines"])
            IN  IF ~Has(file_data, "coveredLines")
                THEN \/ KeyError("coveredLines", <<lf>>)
                     \/ WriteFails(<<lf>>)
                ELSE \/ WriteOk(<<lf, LHLine(file_data["coveredLines"])>>, "end")
                     \/ WriteFails(<<lf, LHLine(file_data["coveredLines"])>>)
    /\ UNCHANGED <<jsonFile, data, out, t, i, j, firstOut>>

\* line 48: end_of_record, then the next file of the target
EndRecord ==
    /\ pc = "end"
    /\ \/ WriteOk(<<EndLine>>, "files") /\ i' = i + 1
       \/ WriteFails(<<EndLine>>) /\ i' = i
    /\ UNCHANGED <<jsonFile, data, out, t, j, firstOut>>

\* line 18: no target is left, the body of the with statement is over
BodyDone ==
    /\ pc = "files"
    /\ t > Len(targets)
    /\ pc' = "exit"
    /\ UNCHANGED <<jsonFile, lcov, data, out, t, i, j, exc, firstOut>>

\* line 17: the with statement closes the stream, on return and on an exception
WithExit ==
    /\ pc = "exit"
    /\ out' = ExitStream(exc)
    /\ pc' = "done"
    /\ firstOut' = IF exc # NoExc THEN firstOut
                   ELSE IF firstOut.taken THEN [firstOut EXCEPT !.again = TRUE]
                   ELSE [taken |-> TRUE, again |-> FALSE, lines |-> lcov.lines]
    /\ UNCHANGED <<jsonFile, lcov, data, t, i, j, exc>>

\* lines 51-57: the script is run again on the same input, with the same
\* lcov_path or with one that no call has named yet
RunAgain ==
    /\ pc = "done"
    /\ lcov' \in {lcov, NoFile, StaleFile}
    /\ pc' = "read"
    /\ data' = None
    /\ out' = "none"
    /\ t' = 1 /\ i' = 1 /\ j' = 1
    /\ exc' = NoExc
    /\ UNCHANGED <<jsonFile, firstOut>>

Next ==
    \/ ReadInput
    \/ OpenOutput
    \/ NextTarget
    \/ FileHeader
    \/ FunctionEntry
    \/ FunctionSummary
    \/ LineEntry
    \/ LineSummary
    \/ EndRecord
    \/ BodyDone
    \/ WithExit
    \/ RunAgain

Spec == Init /\ [][Next]_vars

(* ------------------------------ properties ----------------------------- *)

\* the call has returned without an exception
Returned == pc = "done" /\ exc = NoExc

\* the error classes of the specification, as the exceptions python raises
SchemaError(e) == e.type = "KeyError"
InputError(e) == e.type \in {"FileNotFoundError", "JSONDecodeError"}
OutputError(e) == e.type \in {"PermissionError", "OSError"}

\* the files of the input in target-then-file order
RECURSIVE Flatten(_)
Flatten(ts) ==
    IF ts = <<>> THEN <<>>
    ELSE Get(Head(ts), "files", <<>>) \o Flatten(Tail(ts))

AllFiles ==
    IF jsonFile.kind = "json" THEN Flatten(Get(jsonFile.data, "targets", <<>>)) ELSE <<>>

FunctionsOf(fd) == Get(fd, "functions", <<>>)

StartsWith(s, prefix) ==
    Len(s) >= Len(prefix) /\ SubSeq(s, 1, Len(prefix)) = prefix

\* the lines of ls that begin with prefix, in their order
Select(ls, prefix) == SelectSeq(ls, LAMBDA l : StartsWith(l, prefix))

\* ls cut after each end_of_record line; what follows the last one, if
\* anything, is the last element
RECURSIVE SplitRecords(_, _)
SplitRecords(ls, cur) ==
    IF ls = <<>> THEN (IF cur = <<>> THEN <<>> ELSE <<cur>>)
    ELSE IF Head(ls) = "end_of_record\n"
         THEN <<Append(cur, Head(ls))>> \o SplitRecords(Tail(ls), <<>>)
         ELSE SplitRecords(Tail(ls), Append(cur, Head(ls)))

Records == SplitRecords(lcov.lines, <<>>)

\* C1: after a call that returned, the output holds as many end_of_record
\* lines as the input has files, and its SF: lines are the paths of the
\* files in target-then-file order.
C1_OneRecordPerFile ==
    Returned =>
        LET all == AllFiles
        IN
            /\ Len(Select(lcov.lines, "end_of_record\n")) = Len(all)
            /\ Select(lcov.lines, "SF:")
                 = [k \in 1..Len(all) |-> "SF:" \o all[k]["path"] \o "\n"]

\* C1 witness: a returned call on two targets with one file each, of
\* different paths.
C1_Witness ==
    /\ Returned
    /\ Len(Get(data, "targets", <<>>)) = 2
    /\ Len(AllFiles) = 2
    /\ \A k \in 1..2 : Len(Get(data["targets"][k], "files", <<>>)) = 1
    /\ AllFiles[1]["path"] # AllFiles[2]["path"]

\* C2: the record of a file with K functions holds K FN: lines and K FNDA:
\* lines, the i-th ones being FN:<lineNumber>,<name> and
\* FNDA:<executionCount>,<name> of the i-th function.
C2_FunctionLines ==
    Returned =>
        LET all == AllFiles
            recs == Records
        IN
            /\ Len(recs) = Len(all)
            /\ \A k \in 1..Len(all) :
                 LET fl == FunctionsOf(all[k])
                 IN  /\ Select(recs[k], "FN:")
                          = [q \in 1..Len(fl) |->
                               "FN:" \o ToString(fl[q]["lineNumber"]) \o "," \o fl[q]["name"] \o "\n"]
                     /\ Select(recs[k], "FNDA:")
                          = [q \in 1..Len(fl) |->
                               "FNDA:" \o ToString(fl[q]["executionCount"]) \o ","
                                       \o fl[q]["name"] \o "\n"]

\* C2 witness: a returned call on a file with two functions of different
\* names.
C2_Witness ==
    /\ Returned
    /\ \E k \in 1..Len(AllFiles) :
         /\ Len(FunctionsOf(AllFiles[k])) = 2
         /\ FunctionsOf(AllFiles[k])[1]["name"] # FunctionsOf(AllFiles[k])[2]["name"]
         /\ Len(Select(Records[k], "FN:")) = 2

\* C3: in every record FNF is the number of functions of the file and FNH
\* the number of those with executionCount > 0.
C3_FunctionSummary ==
    Returned =>
        LET all == AllFiles
            recs == Records
        IN
            /\ Len(recs) = Len(all)
            /\ \A k \in 1..Len(all) :
                 LET fl == FunctionsOf(all[k])
                     hit == Cardinality({ q \in 1..Len(fl) : fl[q]["executionCount"] > 0 })
                 IN  /\ Select(recs[k], "FNF:") = << "FNF:" \o ToString(Len(fl)) \o "\n" >>
                     /\ Select(recs[k], "FNH:") = << "FNH:" \o ToString(hit) \o "\n" >>
                     /\ 0 <= hit /\ hit <= Len(fl)

\* C3 witness: a returned call on a file with a function that was executed
\* and one that was not, and on a file without functions.
C3_Witness ==
    /\ Returned
    /\ \E k \in 1..Len(AllFiles) :
         /\ \E q \in DOMAIN FunctionsOf(AllFiles[k]) :
               FunctionsOf(AllFiles[k])[q]["executionCount"] = 0
         /\ \E q \in DOMAIN FunctionsOf(AllFiles[k]) :
               FunctionsOf(AllFiles[k])[q]["executionCount"] > 0
         /\ Select(Records[k], "FNH:") = << "FNH:1\n" >>

\* C4: in every record LF is executableLines and LH is coveredLines of the
\* file, whatever its functions are and whether or not LH exceeds LF: two
\* files with the same totals get the same LF and LH lines.
C4_LineSummary ==
    Returned =>
        LET all == AllFiles
            recs == Records
        IN
            /\ Len(recs) = Len(all)
            /\ \A k \in 1..Len(all) :
                 /\ Select(recs[k], "LF:")
                      = << "LF:" \o ToString(all[k]["executableLines"]) \o "\n" >>
                 /\ Select(recs[k], "LH:")
                      = << "LH:" \o ToString(all[k]["coveredLines"]) \o "\n" >>
            /\ \A k, l \in 1..Len(all) :
                 ( /\ all[k]["executableLines"] = all[l]["executableLines"]
                   /\ all[k]["coveredLines"] = all[l]["coveredLines"] )
                 => /\ Select(recs[k], "LF:") = Select(recs[l], "LF:")
                    /\ Select(recs[k], "LH:") = Select(recs[l], "LH:")

\* C4 witness: a returned call on two files with the same totals and
\* different function lists, coveredLines being larger than executableLines.
C4_Witness ==
    /\ Returned
    /\ \E k, l \in 1..Len(AllFiles) :
         /\ AllFiles[k]["executableLines"] = AllFiles[l]["executableLines"]
         /\ AllFiles[k]["coveredLines"] = AllFiles[l]["coveredLines"]
         /\ AllFiles[k]["coveredLines"] > AllFiles[k]["executableLines"]
         /\ FunctionsOf(AllFiles[k]) # FunctionsOf(AllFiles[l])
         /\ Select(Records[k], "LH:") = << "LH:2\n" >>

\* C5: the record of a file with K functions is TN:, SF:, 2K FN:/FNDA:
\* lines, FNF:, FNH:, K DA: lines, LF:, LH:, end_of_record, in this order,
\* the i-th DA: line being DA:<lineNumber>,<executionCount> of the i-th
\* function.
C5_RecordLayout ==
    Returned =>
        LET all == AllFiles
            recs == Records
        IN
            /\ Len(recs) = Len(all)
            /\ \A k \in 1..Len(all) :
                 LET fl == FunctionsOf(all[k])
                     K == Len(fl)
                     rec == recs[k]
                 IN  /\ Len(rec) = 3 * K + 7
                     /\ rec[1] = "TN:\n"
                     /\ StartsWith(rec[2], "SF:")
                     /\ \A q \in 3..(2 * K + 2) :
                          StartsWith(rec[q], "FN:") \/ StartsWith(rec[q], "FNDA:")
                     /\ StartsWith(rec[2 * K + 3], "FNF:")
                     /\ StartsWith(rec[2 * K + 4], "FNH:")
                     /\ \A q \in 1..K :
                          rec[2 * K + 4 + q]
                            = "DA:" \o ToString(fl[q]["lineNumber"]) \o ","
                                    \o ToString(fl[q]["executionCount"]) \o "\n"
                     /\ StartsWith(rec[3 * K + 5], "LF:")
                     /\ StartsWith(rec[3 * K + 6], "LH:")
                     /\ rec[3 * K + 7] = "end_of_record\n"

\* C5 witness: a returned call on a file with two different functions, with
\* two DA: lines in its record.
C5_Witness ==
    /\ Returned
    /\ \E k \in 1..Len(AllFiles) :
         /\ Len(FunctionsOf(AllFiles[k])) = 2
         /\ FunctionsOf(AllFiles[k])[1] # FunctionsOf(AllFiles[k])[2]
         /\ Len(Select(Records[k], "DA:")) = 2

\* the first required key the call finds absent in the functions fl, "" if
\* there is none: per function name, lineNumber, executionCount
RECURSIVE MissingInFunctions(_)
MissingInFunctions(fl) ==
    IF fl = <<>> THEN ""
    ELSE IF ~Has(Head(fl), "name") THEN "name"
    ELSE IF ~Has(Head(fl), "lineNumber") THEN "lineNumber"
    ELSE IF ~Has(Head(fl), "executionCount") THEN "executionCount"
    ELSE MissingInFunctions(Tail(fl))

\* the first required key absent in the file fd, "" if there is none
MissingInFile(fd) ==
    IF ~Has(fd, "path") THEN "path"
    ELSE IF MissingInFunctions(FunctionsOf(fd)) # "" THEN MissingInFunctions(FunctionsOf(fd))
    ELSE IF ~Has(fd, "executableLines") THEN "executableLines"
    ELSE IF ~Has(fd, "coveredLines") THEN "coveredLines"
    ELSE ""

\* the files that lack a required key, by their index in AllFiles
BadFiles == { k \in 1..Len(AllFiles) : MissingInFile(AllFiles[k]) # "" }

\* the index of the first of them; 0 if every file is complete
FirstBad == IF BadFiles = {} THEN 0 ELSE CHOOSE k \in BadFiles : \A l \in BadFiles : k <= l

\* C6, as amended: a call on an input that lacks a required key never
\* returns normally and never writes the end of the record of the file that
\* lacks it; it ends with a KeyError naming the first absent key it reaches,
\* unless opening or writing the destination fails before that key is read.
C6_MissingFieldFails ==
    (pc = "done" /\ FirstBad # 0) =>
        LET all == AllFiles
            bad == FirstBad
        IN
            /\ exc # NoExc
            /\ \/ SchemaError(exc) /\ exc.arg = MissingInFile(all[bad])
               \/ OutputError(exc)
            /\ out # "none" => Len(Select(lcov.lines, "end_of_record\n")) < bad

\* C6 witness: a call ended by the KeyError of a file whose coveredLines is
\* absent, the file not being the only one.
C6_Witness ==
    /\ pc = "done"
    /\ exc = Raise("KeyError", "coveredLines")
    /\ Len(AllFiles) >= 2
    /\ FirstBad # 0

\* C6, as claimed: a call on an input that lacks a required key always ends
\* with a SchemaError naming that key.
C6_AlwaysSchemaError ==
    (pc = "done" /\ FirstBad # 0) =>
        /\ SchemaError(exc)
        /\ exc.arg = MissingInFile(AllFiles[FirstBad])

\* C7: when the input cannot be opened or is not JSON, every call ends with
\* an InputError and the destination is never opened, truncated or written;
\* and whenever the output stream exists the input has been parsed.
C7_InputFirst ==
    /\ jsonFile.kind # "json" =>
         /\ lcov \in {NoFile, StaleFile}
         /\ out = "none"
         /\ pc = "done" => InputError(exc)
    /\ out # "none" => jsonFile.kind = "json" /\ data = jsonFile.data

\* C7 witness: a call on an input that is not JSON has ended with an
\* InputError and the destination still holds its older content.
C7_Witness ==
    /\ pc = "done"
    /\ jsonFile.kind = "garbage"
    /\ InputError(exc)
    /\ lcov = StaleFile

\* C8: whenever a call has returned, its destination holds exactly what the
\* first call that returned left at its destination, be it the same
\* destination or another one.
C8_Idempotent ==
    Returned =>
        /\ firstOut.taken
        /\ lcov.exists
        /\ lcov.lines = firstOut.lines

\* C8 witness: a second call has returned and left a non-empty output.
C8_Witness ==
    /\ Returned
    /\ firstOut.again
    /\ lcov.lines # <<>>

\* the two lines of each function of fl, as section 6 of the specification
\* lists them
RECURSIVE ExpectedFunctionLines(_)
ExpectedFunctionLines(fl) ==
    IF fl = <<>> THEN <<>>
    ELSE << "FN:" \o ToString(Head(fl)["lineNumber"]) \o "," \o Head(fl)["name"] \o "\n",
            "FNDA:" \o ToString(Head(fl)["executionCount"]) \o "," \o Head(fl)["name"] \o "\n" >>
         \o ExpectedFunctionLines(Tail(fl))

\* the record of a complete file, as section 6 of the specification lists it
ExpectedRecord(fd) ==
    LET fl == FunctionsOf(fd)
        hit == Cardinality({ q \in 1..Len(fl) : fl[q]["executionCount"] > 0 })
    IN  << "TN:\n", "SF:" \o fd["path"] \o "\n" >>
        \o ExpectedFunctionLines(fl)
        \o << "FNF:" \o ToString(Len(fl)) \o "\n", "FNH:" \o ToString(hit) \o "\n" >>
        \o [q \in 1..Len(fl) |->
              "DA:" \o ToString(fl[q]["lineNumber"]) \o ","
                    \o ToString(fl[q]["executionCount"]) \o "\n"]
        \o << "LF:" \o ToString(fd["executableLines"]) \o "\n",
              "LH:" \o ToString(fd["coveredLines"]) \o "\n",
              "end_of_record\n" >>

\* C9: after a call ended by a missing key met in file j, the output holds
\* the complete records of files 1..j-1, then at most one record without
\* end_of_record, which is of file j, and nothing else.
C9_PrefixKept ==
    (pc = "done" /\ SchemaError(exc)) =>
        LET all == AllFiles
            recs == Records
            bad == FirstBad
        IN
            /\ bad >= 1
            /\ Len(Select(lcov.lines, "end_of_record\n")) = bad - 1
            /\ Len(recs) \in {bad - 1, bad}
            /\ \A k \in 1..(bad - 1) : recs[k] = ExpectedRecord(all[k])
            /\ Len(recs) = bad =>
                 /\ Select(recs[bad], "end_of_record\n") = <<>>
                 /\ Len(Select(recs[bad], "TN:")) <= 1
                 /\ \A l \in 1..Len(Select(recs[bad], "SF:")) :
                      /\ l = 1
                      /\ Select(recs[bad], "SF:")[l]
                           = "SF:" \o all[bad]["path"] \o "\n"

\* C9 witness: the second of three files lacks a key; the output holds the
\* record of the first file and an unfinished record of the second.
C9_Witness ==
    /\ pc = "done"
    /\ SchemaError(exc)
    /\ Len(AllFiles) = 3
    /\ FirstBad = 2
    /\ Len(Records) = 2
    /\ Records[1] = ExpectedRecord(AllFiles[1])

\* C10: a call that ends after its output stream was opened, by returning,
\* by a missing key or by a failed write, ends with the stream closed, and
\* the output only changes while the stream is open.
C10_StreamClosed ==
    [][ /\ (pc' = "done" /\ exc'.type \in {"None", "KeyError", "OSError"})
            => out' = "closed"
        /\ (lcov' # lcov /\ pc # "done") => out' = "open"
        /\ out = "closed" => (lcov' = lcov \/ pc' = "read") ]_vars

\* C10 witness: a call ended by a failed write, its stream closed.
C10_Witness ==
    /\ pc = "done"
    /\ exc.type = "OSError"
    /\ out = "closed"
    /\ lcov.lines # <<>>

====
